---- MODULE Spec2Model ----
(***************************************************************************)
(* Model of the game-logic engine of tetris.py: the piece catalog, the     *)
(* 7-bag randomizer, Piece, Board and Game.  Rendering, menus, audio and   *)
(* the high-score file are outside the model.                              *)
(*                                                                         *)
(* Rows and columns keep Python's 0-based numbering; the grid is a         *)
(* sequence of rows, so Python's grid[y][x] is grid[y + 1][x + 1] here.    *)
(* Time is counted in whole milliseconds (clock.tick returns milliseconds).*)
(***************************************************************************)
EXTENDS Integers, Sequences, FiniteSets, TLC

(* ------------------------------ Config ------------------------------ *)
GRID_W == 10
GRID_H == 20

(* Python's None *)
None == "None"

(* list(PIECES.keys()): dict insertion order *)
KindSeq == <<"I", "J", "L", "O", "S", "T", "Z">>
Kinds == {KindSeq[i] : i \in 1..Len(KindSeq)}

(* ------------------------------ Bounds ------------------------------ *)
(* engine calls explored from each initial state *)
MaxOps == 3
(* outcomes of random.shuffle the engine specifications draw from *)
NumShuffles == 2
(* rows of the prepared stacks the drawn-board specifications start from *)
MaxStack == 4
(* draws of the bag followed by BagSpec, counted after construction *)
MaxDraws == 14
(* levels of the games in progress the scoring specification starts from *)
MaxLevel == 11
(* pieces played in a game of hard drops only *)
MaxPlayed == 8

(* --------------------------- Piece catalog --------------------------- *)
PIECES ==
  [k \in Kinds |->
     CASE k = "I" -> << <<<<0,1>>, <<1,1>>, <<2,1>>, <<3,1>>>>,
                        <<<<2,0>>, <<2,1>>, <<2,2>>, <<2,3>>>>,
                        <<<<0,2>>, <<1,2>>, <<2,2>>, <<3,2>>>>,
                        <<<<1,0>>, <<1,1>>, <<1,2>>, <<1,3>>>> >>
       [] k = "J" -> << <<<<0,0>>, <<0,1>>, <<1,1>>, <<2,1>>>>,
                        <<<<1,0>>, <<2,0>>, <<1,1>>, <<1,2>>>>,
                        <<<<0,1>>, <<1,1>>, <<2,1>>, <<2,2>>>>,
                        <<<<1,0>>, <<1,1>>, <<0,2>>, <<1,2>>>> >>
       [] k = "L" -> << <<<<2,0>>, <<0,1>>, <<1,1>>, <<2,1>>>>,
                        <<<<1,0>>, <<1,1>>, <<1,2>>, <<2,2>>>>,
                        <<<<0,1>>, <<1,1>>, <<2,1>>, <<0,2>>>>,
                        <<<<0,0>>, <<1,0>>, <<1,1>>, <<1,2>>>> >>
       [] k = "O" -> << <<<<1,0>>, <<2,0>>, <<1,1>>, <<2,1>>>>,
                        <<<<1,0>>, <<2,0>>, <<1,1>>, <<2,1>>>>,
                        <<<<1,0>>, <<2,0>>, <<1,1>>, <<2,1>>>>,
                        <<<<1,0>>, <<2,0>>, <<1,1>>, <<2,1>>>> >>
       [] k = "S" -> << <<<<1,0>>, <<2,0>>, <<0,1>>, <<1,1>>>>,
                        <<<<1,0>>, <<1,1>>, <<2,1>>, <<2,2>>>>,
                        <<<<1,1>>, <<2,1>>, <<0,2>>, <<1,2>>>>,
                        <<<<0,0>>, <<0,1>>, <<1,1>>, <<1,2>>>> >>
       [] k = "T" -> << <<<<1,0>>, <<0,1>>, <<1,1>>, <<2,1>>>>,
                        <<<<1,0>>, <<1,1>>, <<2,1>>, <<1,2>>>>,
                        <<<<0,1>>, <<1,1>>, <<2,1>>, <<1,2>>>>,
                        <<<<1,0>>, <<0,1>>, <<1,1>>, <<1,2>>>> >>
       [] k = "Z" -> << <<<<0,0>>, <<1,0>>, <<1,1>>, <<2,1>>>>,
                        <<<<2,0>>, <<1,1>>, <<2,1>>, <<1,2>>>>,
                        <<<<0,1>>, <<1,1>>, <<1,2>>, <<2,2>>>>,
                        <<<<1,0>>, <<0,1>>, <<1,1>>, <<0,2>>>> >>]

(* kick tables, indexed [old_rot + 1][new_rot + 1]; <<>> where the dict has no key *)
KICKS_JLSTZ ==
  << << <<>>,
        <<<<0,0>>, <<-1,0>>, <<-1,-1>>, <<0,2>>, <<-1,2>>>>,
        <<>>,
        <<<<0,0>>, <<1,0>>, <<1,-1>>, <<0,2>>, <<1,2>>>> >>,
     << <<<<0,0>>, <<1,0>>, <<1,1>>, <<0,-2>>, <<1,-2>>>>,
        <<>>,
        <<<<0,0>>, <<1,0>>, <<1,1>>, <<0,-2>>, <<1,-2>>>>,
        <<>> >>,
     << <<>>,
        <<<<0,0>>, <<-1,0>>, <<-1,-1>>, <<0,2>>, <<-1,2>>>>,
        <<>>,
        <<<<0,0>>, <<1,0>>, <<1,-1>>, <<0,2>>, <<1,2>>>> >>,
     << <<<<0,0>>, <<-1,0>>, <<-1,1>>, <<0,-2>>, <<-1,-2>>>>,
        <<>>,
        <<<<0,0>>, <<-1,0>>, <<-1,1>>, <<0,-2>>, <<-1,-2>>>>,
        <<>> >> >>

KICKS_I ==
  << << <<>>,
        <<<<0,0>>, <<-2,0>>, <<1,0>>, <<-2,1>>, <<1,-2>>>>,
        <<>>,
        <<<<0,0>>, <<-1,0>>, <<2,0>>, <<-1,-2>>, <<2,1>>>> >>,
     << <<<<0,0>>, <<2,0>>, <<-1,0>>, <<2,-1>>, <<-1,2>>>>,
        <<>>,
        <<<<0,0>>, <<-1,0>>, <<2,0>>, <<-1,-2>>, <<2,1>>>>,
        <<>> >>,
     << <<>>,
        <<<<0,0>>, <<1,0>>, <<-2,0>>, <<1,2>>, <<-2,-1>>>>,
        <<>>,
        <<<<0,0>>, <<2,0>>, <<-1,0>>, <<2,-1>>, <<-1,2>>>> >>,
     << <<<<0,0>>, <<1,0>>, <<-2,0>>, <<1,2>>, <<-2,-1>>>>,
        <<>>,
        <<<<0,0>>, <<-2,0>>, <<1,0>>, <<-2,1>>, <<1,-2>>>>,
        <<>> >> >>

(* the candidates without the first, the rotation in place *)
KickCandidates_mut(kind, old_rot, new_rot) ==
  LET kicks == IF kind = "I" THEN KICKS_I ELSE KICKS_JLSTZ
      found == kicks[old_rot + 1][new_rot + 1]
  IN  IF found = <<>> THEN <<<<0,0>>>> ELSE Tail(found)

(* kicks.get(key, [(0,0)]) *)
KickCandidates(kind, old_rot, new_rot) ==
  LET kicks == IF kind = "I" THEN KICKS_I ELSE KICKS_JLSTZ
      found == kicks[old_rot + 1][new_rot + 1]
  IN  IF found = <<>> THEN <<<<0,0>>>> ELSE found

(* ------------------------------- Piece ------------------------------- *)
(* Piece.__init__ *)
Piece(kind) == [kind |-> kind, rot |-> 0, x |-> 3, y |-> 0]

(* Piece.cells(x, y, rot) *)
cells(piece, x, y, rot) ==
  [i \in 1..4 |-> <<x + PIECES[piece.kind][rot + 1][i][1],
                    y + PIECES[piece.kind][rot + 1][i][2]>>]

(* Piece.cells() with the piece's own position and rotation *)
own_cells(piece) == cells(piece, piece.x, piece.y, piece.rot)

(* ------------------------------- Board ------------------------------- *)
EmptyRow == [x \in 1..GRID_W |-> None]

(* Board.__init__ *)
EmptyGrid == [y \in 1..GRID_H |-> EmptyRow]

(* the loop of Board.collides from the i-th cell on, with its early returns *)
RECURSIVE collides_from(_, _, _)
collides_from(grid, cs, i) ==
  IF i > Len(cs) THEN FALSE
  ELSE LET x == cs[i][1]
           y == cs[i][2]
       IN  IF x < 0 \/ x >= GRID_W \/ y >= GRID_H THEN TRUE
           ELSE IF y >= 0 /\ grid[y + 1][x + 1] # None THEN TRUE
           ELSE collides_from(grid, cs, i + 1)

(* collides with "return False" inside the loop: only the first cell is looked at *)
collides_mut(grid, cs) ==
  LET x == cs[1][1]
      y == cs[1][2]
  IN  IF x < 0 \/ x >= GRID_W \/ y >= GRID_H THEN TRUE
      ELSE y >= 0 /\ grid[y + 1][x + 1] # None

(* Board.collides *)
collides(grid, cs) == collides_from(grid, cs, 1)

(* first loop of Board.lock: the cells of the piece from the i-th on are written *)
RECURSIVE write_cells(_, _, _, _)
write_cells(grid, cs, kind, i) ==
  IF i > Len(cs) THEN grid
  ELSE LET x == cs[i][1]
           y == cs[i][2]
       IN  IF 0 <= y /\ y < GRID_H
           THEN write_cells([grid EXCEPT ![y + 1][x + 1] = kind], cs, kind, i + 1)
           ELSE write_cells(grid, cs, kind, i + 1)

(* full = [i for i,row in enumerate(grid) if all(c is not None for c in row)],
   ascending, as 0-based row numbers *)
RECURSIVE full_rows_from(_, _)
full_rows_from(grid, y) ==
  IF y >= GRID_H THEN <<>>
  ELSE IF \A x \in 1..GRID_W : grid[y + 1][x] # None
       THEN <<y>> \o full_rows_from(grid, y + 1)
       ELSE full_rows_from(grid, y + 1)

full_rows(grid) == full_rows_from(grid, 0)

(* del grid[i]; grid.insert(i, empty row): the rows above do not come down *)
delete_and_insert_mut(grid, i) ==
  SubSeq(grid, 1, i) \o <<EmptyRow>> \o SubSeq(grid, i + 2, Len(grid))

(* del grid[i]; grid.insert(0, empty row) *)
delete_and_insert(grid, i) ==
  <<EmptyRow>> \o SubSeq(grid, 1, i) \o SubSeq(grid, i + 2, Len(grid))

(* second loop of Board.lock: for i in full, from the k-th entry on *)
RECURSIVE clear_rows(_, _, _)
clear_rows(grid, full, k) ==
  IF k > Len(full) THEN grid
  ELSE clear_rows(delete_and_insert(grid, full[k]), full, k + 1)

(* Board.lock with "for i in reversed(full)": the rows are deleted bottom-up,
   by row numbers the insertions have made stale *)
RECURSIVE clear_rows_reversed(_, _, _)
clear_rows_reversed(grid, full, k) ==
  IF k < 1 THEN grid
  ELSE clear_rows_reversed(delete_and_insert(grid, full[k]), full, k - 1)

lock_mut(grid, piece) ==
  LET written == write_cells(grid, own_cells(piece), piece.kind, 1)
      full    == full_rows(written)
  IN  [grid |-> clear_rows_reversed(written, full, Len(full)), cleared |-> Len(full),
       full |-> full]

(* Board.lock: the new grid, the returned count and the list full *)
lock(grid, piece) ==
  LET written == write_cells(grid, own_cells(piece), piece.kind, 1)
      full    == full_rows(written)
  IN  [grid |-> clear_rows(written, full, 1), cleared |-> Len(full), full |-> full]

(* Board.top_out *)
top_out(grid) ==
  \E x \in 0..(GRID_W - 1) :
     /\ grid[1][x + 1] # None
     /\ \E y \in 0..1 : grid[y + 1][x + 1] # None

(* --------------------------- 7-bag randomizer --------------------------- *)
(* every result random.shuffle can leave in the list *)
AllShuffles ==
  {[i \in 1..Len(KindSeq) |-> KindSeq[p[i]]] : p \in Permutations(1..Len(KindSeq))}

(* KindSeq turned left by k places *)
Turned(k) == [i \in 1..Len(KindSeq) |-> KindSeq[((i - 1 + k) % Len(KindSeq)) + 1]]

(* the results of random.shuffle the engine specifications draw from:
   I first, T first, O first, ... *)
ShuffleOutcomes == {Turned(5 * (n - 1)) : n \in 1..NumShuffles}

(* the list is shuffled again while its last entry is still to be yielded *)
bag_exhausted_mut(bag) == Len(bag) <= 1

(* the for loop of bag_generator has yielded every entry of the list *)
bag_exhausted(bag) == bag = <<>>

(* next(bag): bag holds what the for loop has still to yield; when it is
   exhausted the list is shuffled again (into sh) and its first entry yielded *)
bag_next(bag, sh) ==
  IF bag_exhausted(bag) THEN [kind |-> sh[1], bag |-> Tail(sh)]
  ELSE [kind |-> Head(bag), bag |-> Tail(bag)]

(* ------------------------------- Game ------------------------------- *)
(* the dy loop of spawn_new trying the row above first *)
NudgeDy_mut == <<-1, 0, 1>>

NudgeDy == <<0, -1, 1>>
NudgeDx == <<0, -1, 1>>

(* the nested loops of spawn_new from the i-th (dy, dx) pair on, i in 0..8 *)
RECURSIVE nudge(_, _)
nudge(e, i) ==
  IF i >= Len(NudgeDy) * Len(NudgeDx) THEN [e EXCEPT !.game_over = TRUE]
  ELSE LET dy == NudgeDy[(i \div Len(NudgeDx)) + 1]
           dx == NudgeDx[(i % Len(NudgeDx)) + 1]
           c  == e.current
       IN  IF ~collides(e.grid, cells(c, c.x + dx, c.y + dy, c.rot))
           THEN [e EXCEPT !.current.x = @ + dx, !.current.y = @ + dy]
           ELSE nudge(e, i + 1)

(* Game.spawn_new putting the new draw at the head of the queue *)
spawn_new_mut(e, sh) ==
  LET d1 == IF e.next_queue # <<>>
            THEN [kind |-> Head(e.next_queue), bag |-> e.bag]
            ELSE bag_next(e.bag, sh)
      q1 == IF e.next_queue # <<>> THEN Tail(e.next_queue) ELSE <<>>
      d2 == bag_next(d1.bag, sh)
      e1 == [e EXCEPT !.current = Piece(d1.kind),
                      !.next_queue = <<d2.kind>> \o q1,
                      !.bag = d2.bag,
                      !.hold_used = FALSE]
  IN  IF collides(e1.grid, own_cells(e1.current)) THEN nudge(e1, 0) ELSE e1

(* Game.spawn_new; sh is the result of the shuffle, should a draw need one *)
spawn_new(e, sh) ==
  LET d1 == IF e.next_queue # <<>>
            THEN [kind |-> Head(e.next_queue), bag |-> e.bag]
            ELSE bag_next(e.bag, sh)
      q1 == IF e.next_queue # <<>> THEN Tail(e.next_queue) ELSE <<>>
      d2 == bag_next(d1.bag, sh)
      e1 == [e EXCEPT !.current = Piece(d1.kind),
                      !.next_queue = Append(q1, d2.kind),
                      !.bag = d2.bag,
                      !.hold_used = FALSE]
  IN  IF collides(e1.grid, own_cells(e1.current)) THEN nudge(e1, 0) ELSE e1

(* [next(self.bag) for _ in range(n)]: the kinds drawn and the bag afterwards *)
RECURSIVE draw_n(_, _, _)
draw_n(bag, sh, n) ==
  IF n = 0 THEN [kinds |-> <<>>, bag |-> bag]
  ELSE LET d    == bag_next(bag, sh)
           rest == draw_n(d.bag, sh, n - 1)
       IN  [kinds |-> <<d.kind>> \o rest.kinds, bag |-> rest.bag]

(* Game.__init__: five draws for the queue, a sixth for a first piece that
   spawn_new replaces at once; sh is the result of the first shuffle *)
NewGame(sh) ==
  LET q == draw_n(<<>>, sh, 5)
      c == bag_next(q.bag, sh)
  IN  spawn_new([grid |-> EmptyGrid,
                 bag |-> c.bag,
                 next_queue |-> q.kinds,
                 current |-> Piece(c.kind),
                 hold |-> None,
                 hold_used |-> FALSE,
                 score |-> 0,
                 level |-> 1,
                 lines |-> 0,
                 gravity_timer |-> 0,
                 game_over |-> FALSE,
                 paused |-> FALSE], sh)

(* scores.get(cleared, 0) *)
scores(cleared) ==
  CASE cleared = 1 -> 100
    [] cleared = 2 -> 300
    [] cleared = 3 -> 500
    [] cleared = 4 -> 800
    [] OTHER -> 0

(* Game.lock_and_clear multiplying the award by the recomputed level *)
lock_and_clear_mut(e, sh) ==
  LET l  == lock(e.grid, e.current)
      e1 == [e EXCEPT !.grid = l.grid]
      nl == 1 + ((e.lines + l.cleared) \div 10)
      e2 == IF l.cleared # 0
            THEN [e1 EXCEPT !.score = @ + scores(l.cleared) * nl,
                            !.lines = @ + l.cleared,
                            !.level = nl]
            ELSE e1
  IN  IF top_out(e2.grid) THEN [e2 EXCEPT !.game_over = TRUE]
      ELSE spawn_new(e2, sh)

(* Game.lock_and_clear with a level step at every tenth line counted one
   by one: a clear that jumps over the multiple of 10 leaves the level *)
lock_and_clear_mut2(e, sh) ==
  LET l  == lock(e.grid, e.current)
      e1 == [e EXCEPT !.grid = l.grid]
      e2 == IF l.cleared # 0
            THEN [e1 EXCEPT !.score = @ + scores(l.cleared) * e.level,
                            !.lines = @ + l.cleared,
                            !.level = IF (e.lines + l.cleared) % 10 = 0
                                      THEN @ + 1 ELSE @]
            ELSE e1
  IN  IF top_out(e2.grid) THEN [e2 EXCEPT !.game_over = TRUE]
      ELSE spawn_new(e2, sh)

(* Game.lock_and_clear *)
lock_and_clear(e, sh) ==
  LET l  == lock(e.grid, e.current)
      e1 == [e EXCEPT !.grid = l.grid]
      e2 == IF l.cleared # 0
            THEN [e1 EXCEPT !.score = @ + scores(l.cleared) * e.level,
                            !.lines = @ + l.cleared,
                            !.level = 1 + ((e.lines + l.cleared) \div 10)]
            ELSE e1
  IN  IF top_out(e2.grid) THEN [e2 EXCEPT !.game_over = TRUE]
      ELSE spawn_new(e2, sh)

(* Game.try_move asking collides only about moves that go down *)
try_move_mut(e, dx, dy) ==
  IF e.game_over \/ e.paused THEN [e |-> e, ret |-> FALSE]
  ELSE LET nx == e.current.x + dx
           ny == e.current.y + dy
       IN  IF dy = 0 \/ ~collides(e.grid, cells(e.current, nx, ny, e.current.rot))
           THEN [e |-> [e EXCEPT !.current.x = nx, !.current.y = ny], ret |-> TRUE]
           ELSE [e |-> e, ret |-> FALSE]

(* Game.try_move: the engine afterwards and the returned flag *)
try_move(e, dx, dy) ==
  IF e.game_over \/ e.paused THEN [e |-> e, ret |-> FALSE]
  ELSE LET nx == e.current.x + dx
           ny == e.current.y + dy
       IN  IF ~collides(e.grid, cells(e.current, nx, ny, e.current.rot))
           THEN [e |-> [e EXCEPT !.current.x = nx, !.current.y = ny], ret |-> TRUE]
           ELSE [e |-> e, ret |-> FALSE]

(* Game.soft_drop giving its point for the attempt, moved or not *)
soft_drop_mut(e, sh) ==
  LET m  == try_move(e, 0, 1)
      e1 == [m.e EXCEPT !.score = @ + 1]
  IN  IF ~m.ret THEN lock_and_clear(e1, sh) ELSE e1

(* Game.soft_drop *)
soft_drop(e, sh) ==
  LET m == try_move(e, 0, 1)
  IN  IF ~m.ret THEN lock_and_clear(m.e, sh)
      ELSE [m.e EXCEPT !.score = @ + 1]

(* the while loop of Game.hard_drop: the engine and dist when it ends *)
RECURSIVE hard_drop_fall(_, _)
hard_drop_fall(e, dist) ==
  LET m == try_move(e, 0, 1)
  IN  IF m.ret THEN hard_drop_fall(m.e, dist + 1)
      ELSE [e |-> m.e, dist |-> dist]

(* Game.hard_drop with "if" for "while": the piece falls one row at most *)
hard_drop_mut(e, sh) ==
  LET m == try_move(e, 0, 1)
      dist == IF m.ret THEN 1 ELSE 0
  IN  lock_and_clear([m.e EXCEPT !.score = @ + 2 * dist], sh)

(* Game.hard_drop *)
hard_drop(e, sh) ==
  LET f == hard_drop_fall(e, 0)
  IN  lock_and_clear([f.e EXCEPT !.score = @ + 2 * f.dist], sh)

(* the candidate loop of Game.rotate from the i-th candidate on *)
RECURSIVE rotate_try(_, _, _, _)
rotate_try(e, new_rot, candidates, i) ==
  IF i > Len(candidates) THEN e
  ELSE LET dx == candidates[i][1]
           dy == candidates[i][2]
           c  == e.current
       IN  IF ~collides(e.grid, cells(c, c.x + dx, c.y + dy, new_rot))
           THEN [e EXCEPT !.current.rot = new_rot,
                          !.current.x = @ + dx,
                          !.current.y = @ + dy]
           ELSE rotate_try(e, new_rot, candidates, i + 1)

(* Game.rotate without "self.current.y += dy": a kick moves the piece sideways only *)
RECURSIVE rotate_try_mut(_, _, _, _)
rotate_try_mut(e, new_rot, candidates, i) ==
  IF i > Len(candidates) THEN e
  ELSE LET dx == candidates[i][1]
           dy == candidates[i][2]
           c  == e.current
       IN  IF ~collides(e.grid, cells(c, c.x + dx, c.y + dy, new_rot))
           THEN [e EXCEPT !.current.rot = new_rot, !.current.x = @ + dx]
           ELSE rotate_try_mut(e, new_rot, candidates, i + 1)

rotate_mut(e, dir) ==
  IF e.game_over \/ e.paused THEN e
  ELSE LET old_rot == e.current.rot
           new_rot == (old_rot + (IF dir > 0 THEN 1 ELSE -1)) % 4
       IN  rotate_try_mut(e, new_rot,
                          KickCandidates(e.current.kind, old_rot, new_rot), 1)

(* Game.rotate *)
rotate(e, dir) ==
  IF e.game_over \/ e.paused THEN e
  ELSE LET old_rot == e.current.rot
           new_rot == (old_rot + (IF dir > 0 THEN 1 ELSE -1)) % 4
       IN  rotate_try(e, new_rot, KickCandidates(e.current.kind, old_rot, new_rot), 1)

(* Game.hold_piece nudging a swapped-in piece that collides, as spawn_new does *)
hold_piece_mut(e, sh) ==
  IF e.game_over \/ e.paused \/ e.hold_used THEN e
  ELSE LET e1 == [e EXCEPT !.hold_used = TRUE]
       IN  IF e1.hold = None
           THEN spawn_new([e1 EXCEPT !.hold = e.current.kind], sh)
           ELSE LET e2 == [e1 EXCEPT !.hold = e.current.kind,
                                     !.current = [Piece(e.hold) EXCEPT
                                                    !.x = 3, !.y = 0, !.rot = 0]]
                IN  IF collides(e2.grid, own_cells(e2.current))
                    THEN nudge(e2, 0)
                    ELSE e2

(* Game.hold_piece *)
hold_piece(e, sh) ==
  IF e.game_over \/ e.paused \/ e.hold_used THEN e
  ELSE LET e1 == [e EXCEPT !.hold_used = TRUE]
       IN  IF e1.hold = None
           THEN spawn_new([e1 EXCEPT !.hold = e.current.kind], sh)
           ELSE LET e2 == [e1 EXCEPT !.hold = e.current.kind,
                                     !.current = [Piece(e.hold) EXCEPT
                                                    !.x = 3, !.y = 0, !.rot = 0]]
                IN  IF collides(e2.grid, own_cells(e2.current))
                    THEN [e2 EXCEPT !.game_over = TRUE]
                    ELSE e2

(* Game.fall_speed without the clamp *)
fall_speed_mut(e) == 550 - (e.level - 1) * 50

(* Game.fall_speed, in milliseconds: max(0.10, 0.55 - (level - 1) * 0.05) *)
fall_speed(e) ==
  LET v == 550 - (e.level - 1) * 50
  IN  IF v > 100 THEN v ELSE 100

(* Game.tick; dt in milliseconds *)
tick(e, dt, sh) ==
  IF e.game_over \/ e.paused THEN e
  ELSE LET e1 == [e EXCEPT !.gravity_timer = @ + dt]
       IN  IF e1.gravity_timer >= fall_speed(e1)
           THEN LET e2 == [e1 EXCEPT !.gravity_timer = 0]
                    m  == try_move(e2, 0, 1)
                IN  IF ~m.ret THEN lock_and_clear(m.e, sh) ELSE m.e
           ELSE e1

(* the loop of Game.ghost_y *)
RECURSIVE ghost_y_from(_, _)
ghost_y_from(e, y) ==
  IF ~collides(e.grid, cells(e.current, e.current.x, y + 1, e.current.rot))
  THEN ghost_y_from(e, y + 1)
  ELSE y

(* Game.ghost_y *)
ghost_y(e) == ghost_y_from(e, e.current.y)

(* the K_p handler also clearing game_over, as if resuming restarted play *)
toggle_pause_mut(e) == [e EXCEPT !.paused = ~e.paused, !.game_over = FALSE]

(* the K_p handler starting the gravity timer afresh *)
toggle_pause_mut2(e) == [e EXCEPT !.paused = ~e.paused, !.gravity_timer = 0]

(* game.paused = not game.paused, the K_p handler of the frame loop *)
toggle_pause(e) == [e EXCEPT !.paused = ~e.paused]

(* ------------------------------ State ------------------------------ *)
VARIABLES
  game,         \* the Game object: its fields, the Board's grid and the bag
  ops,          \* how many calls have been made on it
  lastOp,       \* the last call: its name and arguments
  ret,          \* what the last call returned
  before,       \* the current piece as it was when the last call was made
  lastLock,     \* the last call of Board.lock: how many so far, the piece,
                \* the rows found full and the count returned
  holdAccepted, \* hold_piece has passed its guard since the last lock
  drawn,        \* how often each kind was drawn since the last multiple of 7 draws
  draws,        \* how many draws BagSpec has made
  frozen,       \* the engine as it was when it was last paused (as constructed,
                \* before that), the tick calls made on it while paused and
                \* whether any other call was
  played,       \* the kinds spawn_new has made the current piece, in order
  frame         \* the parity of the frames the loop has run without a key

vars == <<game, ops, lastOp, ret, before, lastLock, holdAccepted, drawn, draws,
          frozen, played, frame>>

NoneDrawn == [k \in Kinds |-> 0]

NoPiece == [kind |-> None, rot |-> 0, x |-> 0, y |-> 0]

(* arguments the calls are made with *)
Moves == {<<-1, 0>>, <<1, 0>>, <<0, 1>>}
Dirs  == {1, -1}
Dts   == {300, 600}
(* a shorter frame, below the smallest fall_speed *)
FineDts == {50}

Active(e) == ~e.game_over /\ ~e.paused

(* a call op(a, b) is made on the engine *)
Made(op, a, b) ==
  /\ ops' = ops + 1
  /\ lastOp' = [op |-> op, arg |-> <<a, b>>]
  /\ before' = game.current
  /\ frozen' = IF op = "pause"
               THEN IF game.paused THEN frozen
                    ELSE [e |-> game, ticks |-> 0, other |-> FALSE]
               ELSE IF ~game.paused THEN frozen
               ELSE IF op = "tick" THEN [frozen EXCEPT !.ticks = @ + 1]
               ELSE [frozen EXCEPT !.other = TRUE]
  /\ UNCHANGED <<drawn, draws, frame>>

(* one of the MaxOps calls a run makes *)
Called(op, a, b) ==
  /\ ops < MaxOps
  /\ Made(op, a, b)

(* the call drew from the bag, which after construction only spawn_new
   does: the piece it made current has been played *)
Spawned ==
  played' = IF game'.bag # game.bag THEN Append(played, game'.current.kind)
            ELSE played

(* the call reached Board.lock with piece p on the engine's grid *)
Locked(p) ==
  /\ LET l == lock(game.grid, p)
     IN  lastLock' = [n |-> lastLock.n + 1, piece |-> p,
                      full |-> l.full, cleared |-> l.cleared]
  /\ holdAccepted' = FALSE
  /\ Spawned

NotLocked == UNCHANGED <<lastLock, holdAccepted, played>>

Fresh ==
  /\ lastOp = [op |-> "__init__", arg |-> <<0, 0>>]
  /\ ret = None
  /\ before = NoPiece
  /\ lastLock = [n |-> 0, piece |-> NoPiece, full |-> <<>>, cleared |-> 0]
  /\ holdAccepted = FALSE
  /\ drawn = NoneDrawn
  /\ draws = 0
  /\ frozen = [e |-> game, ticks |-> 0, other |-> FALSE]
  /\ played = <<game.current.kind>>
  /\ frame = 0

Init ==
  /\ \E sh \in ShuffleOutcomes : game = NewGame(sh)
  /\ ops = 0
  /\ Fresh

(* the results a shuffle during the next call may have: a call draws once
   at most, and draws without shuffling unless the bag is exhausted *)
Shuffles(bag) == IF bag_exhausted(bag) THEN ShuffleOutcomes ELSE {KindSeq}

(* ------------------------------ Calls ------------------------------ *)
TryMove ==
  \E mv \in Moves :
     /\ Called("try_move", mv[1], mv[2])
     /\ game' = try_move(game, mv[1], mv[2]).e
     /\ ret' = try_move(game, mv[1], mv[2]).ret
     /\ NotLocked

Rotate ==
  \E dir \in Dirs :
     /\ Called("rotate", dir, 0)
     /\ game' = rotate(game, dir)
     /\ ret' = None
     /\ NotLocked

SoftDrop ==
  \E sh \in Shuffles(game.bag) :
     /\ Called("soft_drop", 0, 0)
     /\ game' = soft_drop(game, sh)
     /\ ret' = None
     /\ IF ~try_move(game, 0, 1).ret THEN Locked(game.current) ELSE NotLocked

(* hard_drop, a shuffle it causes leaving one of the orders in S *)
HardDropFrom(S) ==
  \E sh \in S :
     /\ Made("hard_drop", 0, 0)
     /\ game' = hard_drop(game, sh)
     /\ ret' = None
     /\ Locked(hard_drop_fall(game, 0).e.current)

HardDrop ==
  /\ ops < MaxOps
  /\ HardDropFrom(Shuffles(game.bag))

HoldPiece ==
  \E sh \in Shuffles(game.bag) :
     /\ Called("hold_piece", 0, 0)
     /\ game' = hold_piece(game, sh)
     /\ ret' = None
     /\ holdAccepted' = (holdAccepted \/ (Active(game) /\ ~game.hold_used))
     /\ Spawned
     /\ UNCHANGED lastLock

(* what tick(dt) does to the engine, a shuffle it causes leaving sh *)
Ticked(dt, sh) ==
  /\ game' = tick(game, dt, sh)
  /\ ret' = None
  /\ IF /\ Active(game)
        /\ game.gravity_timer + dt >= fall_speed(game)
        /\ ~try_move(game, 0, 1).ret
     THEN Locked(game.current)
     ELSE NotLocked

(* tick(dt) with dt one of S *)
TickWith(S) ==
  \E dt \in S, sh \in Shuffles(game.bag) :
     /\ Called("tick", dt, 0)
     /\ Ticked(dt, sh)

Tick == TickWith(Dts)

FineTick == TickWith(FineDts)

GhostY ==
  /\ Called("ghost_y", 0, 0)
  /\ ret' = ghost_y(game)
  /\ UNCHANGED game
  /\ NotLocked

TogglePause ==
  /\ Called("pause", 0, 0)
  /\ game' = toggle_pause(game)
  /\ ret' = None
  /\ NotLocked

Next ==
  \/ TryMove
  \/ Rotate
  \/ SoftDrop
  \/ HardDrop
  \/ HoldPiece
  \/ Tick
  \/ GhostY
  \/ TogglePause

(* a new Game and up to MaxOps calls on it *)
Spec == Init /\ [][Next]_vars

(* ----------------------- Engines in mid-game ----------------------- *)
(* a row full but for column 4, and a row with a second hole in column 9,
   which a piece in column 4 does not complete *)
WellRow == [x \in 1..GRID_W |-> IF x - 1 = 4 THEN None ELSE "J"]
GapRow  == [x \in 1..GRID_W |-> IF x - 1 \in {4, 9} THEN None ELSE "L"]

(* h rows on the floor, all of them WellRow but the g-th from the top
   (g = 0: none), under empty rows *)
Stack(h, g) ==
  [y \in 1..GRID_H |->
     IF y <= GRID_H - h THEN EmptyRow
     ELSE IF y - (GRID_H - h) = g THEN GapRow ELSE WellRow]

(* the low stacks, and one that leaves only rows 0 and 1 free *)
PreparedGrids ==
  {Stack(h, g) : h \in 0..MaxStack, g \in 0..MaxStack} \cup {Stack(GRID_H - 2, 0)}

(* rows the current piece is placed at: the spawn rows and the rows around
   the prepared stacks *)
PlacedRows == {-1, 0} \cup ((GRID_H - MaxStack - 2)..(GRID_H - 1))

(* a game in progress: a prepared grid and the current piece anywhere it
   does not collide *)
InitPlaced ==
  /\ \E sh \in ShuffleOutcomes, g \in PreparedGrids,
        rot \in 0..3, x \in (-2)..(GRID_W - 2), y \in PlacedRows :
        LET e == NewGame(sh)
            p == [e.current EXCEPT !.rot = rot, !.x = x, !.y = y]
        IN  /\ ~collides(g, own_cells(p))
            /\ game = [e EXCEPT !.grid = g, !.current = p]
  /\ ops = MaxOps - 1
  /\ Fresh

(* one call on each game in progress *)
PlacedSpec == InitPlaced /\ [][Next]_vars

(* ------------------------ Engines with time on ------------------------ *)
(* the gravity timer of a game in progress, in milliseconds *)
ScoredTimers == {0, 50, 500}

(* a game shortly after construction: nothing has locked yet, and ticks
   have left time on the gravity timer *)
InitTimed ==
  /\ \E sh \in ShuffleOutcomes, t \in ScoredTimers :
        game = [NewGame(sh) EXCEPT !.gravity_timer = t]
  /\ ops = 0
  /\ Fresh

(* up to MaxOps calls on each game with time on its timer *)
TimedSpec == InitTimed /\ [][Next]_vars

(* ----------------------- Engines late in a game ----------------------- *)
(* the lines counter of a game in progress: the first and the last value
   of each level up to MaxLevel *)
ScoredLines == {10 * (l - 1) + r : l \in 1..MaxLevel, r \in {0, 9}}

(* a game in progress with lines cleared before: the level that goes with
   them, a stack with its well in column 4 and the current piece upright
   over or in the well (rot 1) or beside it (rot 3) *)
InitScored ==
  /\ \E sh \in ShuffleOutcomes, h \in 0..MaxStack, g \in 0..1,
        rot \in {1, 3}, y \in (GRID_H - MaxStack - 2)..(GRID_H - 1),
        n \in ScoredLines, t \in ScoredTimers :
        LET e == NewGame(sh)
            p == [e.current EXCEPT !.rot = rot, !.x = 2, !.y = y]
        IN  /\ ~collides(Stack(h, g), own_cells(p))
            /\ game = [e EXCEPT !.grid = Stack(h, g), !.current = p,
                                !.lines = n, !.level = 1 + (n \div 10),
                                !.gravity_timer = t]
  /\ ops = MaxOps - 1
  /\ Fresh

(* one call on each game late in progress, short frames among them *)
ScoredSpec == InitScored /\ [][Next \/ FineTick]_vars

(* ------------------------ Engines with a hold ------------------------ *)
(* the low stacks without a gap row, the stack that leaves rows 0 and 1
   free and the one that leaves only row 0 free, which top_out lets pass *)
HeldGrids ==
  {Stack(h, 0) : h \in 0..MaxStack} \cup {Stack(GRID_H - 2, 0), Stack(GRID_H - 1, 0)}

(* a game in progress in which a kind may be held and the hold may have
   been used since the last spawn; the current piece is near its spawn
   position, one row up where a spawn nudge or a kick has put it *)
InitHeld ==
  /\ \E sh \in ShuffleOutcomes, g \in HeldGrids, rot \in 0..1,
        x \in 2..4, y \in (-1)..1, h \in Kinds \cup {None}, u \in BOOLEAN :
        LET e == NewGame(sh)
            p == [e.current EXCEPT !.rot = rot, !.x = x, !.y = y]
        IN  /\ ~collides(g, own_cells(p))
            /\ u => h # None
            /\ game = [e EXCEPT !.grid = g, !.current = p,
                                !.hold = h, !.hold_used = u]
  /\ ops = MaxOps - 1
  /\ Fresh

(* one call on each game with a hold *)
HeldSpec == InitHeld /\ [][Next]_vars

(* --------------------- Engines with a full well --------------------- *)
(* the stacks that have grown to row 2 and to row 1; top_out lets both
   pass, row 0 being empty *)
CrowdedGrids == {Stack(GRID_H - 2, 0), Stack(GRID_H - 1, 0)}

(* a game in progress on such a stack, a kind held and the hold not used
   since the last spawn; the current piece is where spawn_new put it, at
   its spawn position or nudged one row up *)
InitCrowded ==
  /\ \E sh \in ShuffleOutcomes, g \in CrowdedGrids, y \in (-1)..0, h \in Kinds :
        LET e == NewGame(sh)
            p == [e.current EXCEPT !.y = y]
        IN  /\ ~collides(g, own_cells(p))
            /\ game = [e EXCEPT !.grid = g, !.current = p, !.hold = h]
  /\ ops = MaxOps - 2
  /\ Fresh

(* two calls on each game with a full well *)
CrowdedSpec == InitCrowded /\ [][Next]_vars

(* ---------------------- Engines with the square ---------------------- *)
(* a game in progress whose first shuffle put O first, so that O is the
   current piece: a prepared grid and the square anywhere it does not
   collide, the walls and the stacks included *)
InitSquare ==
  /\ \E g \in PreparedGrids, rot \in 0..3, x \in (-1)..(GRID_W - 3),
        y \in PlacedRows :
        LET e == NewGame(Turned(3))
            p == [e.current EXCEPT !.rot = rot, !.x = x, !.y = y]
        IN  /\ ~collides(g, own_cells(p))
            /\ game = [e EXCEPT !.grid = g, !.current = p]
  /\ ops = MaxOps - 1
  /\ Fresh

(* one call on each game with the square *)
SquareSpec == InitSquare /\ [][Next]_vars

(* --------------------------- Board.collides --------------------------- *)
(* collides is asked about the current piece shifted by (dx, dy) *)
Collides ==
  \E dx \in -1..1, dy \in -1..1 :
     /\ Called("collides", dx, dy)
     /\ ret' = collides(game.grid, cells(game.current, game.current.x + dx,
                                         game.current.y + dy, game.current.rot))
     /\ UNCHANGED game
     /\ NotLocked

(* one collision query on each game in progress *)
CollideSpec == InitPlaced /\ [][Collides]_vars

(* --------------------------- Pieces played --------------------------- *)
(* the results of random.shuffle a game of hard drops draws from: KindSeq
   turned to begin with each kind *)
PlayShuffles == {Turned(k) : k \in 0..(Len(KindSeq) - 1)}

(* the player drops each piece where it spawns, until the game is over *)
PlayDrop ==
  /\ Len(played) < MaxPlayed
  /\ ~game.game_over
  /\ HardDropFrom(IF bag_exhausted(game.bag) THEN PlayShuffles ELSE {KindSeq})

InitPlay ==
  /\ \E sh \in PlayShuffles : game = NewGame(sh)
  /\ ops = 0
  /\ Fresh

(* a new Game played with hard_drop only: no hold *)
PlaySpec == InitPlay /\ [][PlayDrop]_vars

(* ---------------------------- Gravity only ---------------------------- *)
(* one more frame of the loop has run *)
Frame == frame' = 1 - frame

(* a frame of the loop with no key pressed: tick(dt) is the only call, and
   it is made however many calls came before *)
Gravity ==
  \E dt \in Dts, sh \in (IF bag_exhausted(game.bag) THEN PlayShuffles ELSE {KindSeq}) :
     /\ lastOp' = [op |-> "tick", arg |-> <<dt, 0>>]
     /\ before' = game.current
     /\ Ticked(dt, sh)
     /\ Frame
     /\ UNCHANGED <<ops, frozen, drawn, draws>>

(* a new Game left to gravity: the loop never stops running frames, and
   each of its frames is a Gravity step, the only step there is *)
GravitySpec == InitPlay /\ [][Gravity]_vars /\ WF_frame(Frame)

(* ------------------------------ The bag ------------------------------ *)
(* next(game.bag) and what it yields *)
BagDrawn(d) ==
  /\ draws < MaxDraws
  /\ draws' = draws + 1
  /\ game' = [game EXCEPT !.bag = d.bag]
  /\ drawn' = [(IF draws % Len(KindSeq) = 0 THEN NoneDrawn ELSE drawn)
                 EXCEPT ![d.kind] = @ + 1]
  /\ lastOp' = [op |-> "next", arg |-> <<0, 0>>]
  /\ ret' = d.kind
  /\ UNCHANGED <<ops, before, lastLock, holdAccepted, frozen, played, frame>>

(* a draw that shuffles first: random.shuffle may leave any order *)
BagShuffle ==
  /\ bag_exhausted(game.bag)
  /\ \E sh \in AllShuffles : BagDrawn(bag_next(game.bag, sh))

(* a draw from the order the last shuffle left *)
BagYield ==
  /\ ~bag_exhausted(game.bag)
  /\ BagDrawn(bag_next(game.bag, KindSeq))

BagNext == BagShuffle \/ BagYield

(* self.bag = bag_generator(): a bag nothing has been drawn from yet *)
InitBag ==
  /\ game = [NewGame(KindSeq) EXCEPT !.bag = <<>>]
  /\ ops = 0
  /\ Fresh

(* the draws of one bag, from the first on *)
BagSpec == InitBag /\ [][BagNext]_vars

(* ------------------------------ Claims ------------------------------ *)
Occupied(grid, x, y) == grid[y + 1][x + 1] # None

RowFull(row) == \A x \in 1..GRID_W : row[x] # None

RowNotFull(row) == ~RowFull(row)

Min(S) == CHOOSE m \in S : \A n \in S : m <= n

(* C1: once hold_piece has been accepted, any further hold_piece call before
   the next lock changes nothing: piece, held kind, queue and flags stay as
   they were. *)
C1_SecondHoldChangesNothing ==
  [][(lastOp'.op = "hold_piece" /\ holdAccepted) => game' = game]_vars

(* C2: top_out() is true exactly when some cell of row 0 or of row 1 is
   occupied. *)
C2_TopOutLooksAtTwoRows ==
  top_out(game.grid) <=>
    \E x \in 0..(GRID_W - 1), y \in 0..1 : Occupied(game.grid, x, y)

(* C3: while the engine is paused or game over, try_move, rotate, soft_drop,
   hard_drop, hold_piece and tick leave every field of the engine unchanged,
   and try_move returns false. *)
C3_NoOpWhenPausedOrOver ==
  [][((game.paused \/ game.game_over)
        /\ lastOp'.op \in {"try_move", "rotate", "soft_drop", "hard_drop",
                           "hold_piece", "tick"})
       => (game' = game /\ (lastOp'.op = "try_move" => ret' = FALSE))]_vars

(* C4: once game_over is true it stays true after every further call. *)
C4_GameOverIsTerminal ==
  [][game.game_over => game'.game_over]_vars

(* C4 witness: the pause key was pressed on an engine that is game over *)
C4_Witness ==
  /\ game.game_over
  /\ lastOp.op = "pause"
  /\ lastLock.n > 0

(* C5: after any lock no row of the board has all its cells occupied. *)
C5_NoFullRowAfterLock ==
  lastLock.n > 0 => \A y \in 1..GRID_H : ~RowFull(game.grid[y])

(* C5 witness: a lock that completed two rows with an incomplete row between *)
C5_Witness ==
  /\ lastLock.n > 0
  /\ Len(lastLock.full) = 2
  /\ lastLock.full[2] - lastLock.full[1] >= 2

(* the grid with the cells of piece p written into it *)
Written(grid, p) ==
  LET cs == {own_cells(p)[i] : i \in 1..4}
  IN  [y \in 1..GRID_H |->
         [x \in 1..GRID_W |->
            IF <<x - 1, y - 1>> \in cs THEN p.kind ELSE grid[y][x]]]

(* C6: a lock returns the number of rows that are full once the piece is
   written, a number in 0..4 (the lines counter grows by it); the grid then
   is that many empty rows above the rows that were not full, in their
   order and unchanged, and still has 20 rows of 10 cells. *)
C6_LockRemovesExactlyTheFullRows ==
  [][lastLock'.n # lastLock.n =>
       LET w    == Written(game.grid, lastLock'.piece)
           kept == SelectSeq(w, RowNotFull)
           c    == GRID_H - Len(kept)
       IN  /\ lastLock'.cleared = c
           /\ c \in 0..4
           /\ game'.lines = game.lines + c
           /\ game'.grid = [i \in 1..c |-> EmptyRow] \o kept
           /\ Len(game'.grid) = GRID_H
           /\ \A y \in 1..GRID_H : Len(game'.grid[y]) = GRID_W]_vars

(* C6 witness: a lock that cleared four rows *)
C6_Witness ==
  /\ lastLock.n > 0
  /\ lastLock.cleared = 4
  /\ game.lines = 4

(* the cells the last collides call was asked about *)
ProbedCells ==
  cells(game.current, game.current.x + lastOp.arg[1],
        game.current.y + lastOp.arg[2], game.current.rot)

(* C7: collides(cells) is true exactly when some cell has x < 0 or
   x >= width, or y >= height, or has y >= 0 and lies on an occupied cell;
   a cell with y < 0 and x in range never counts. *)
C7_CollidesIffOutsideOrOccupied ==
  lastOp.op = "collides" =>
    (ret <=> \E i \in 1..4 :
               LET x == ProbedCells[i][1]
                   y == ProbedCells[i][2]
               IN  \/ x < 0
                   \/ x >= GRID_W
                   \/ y >= GRID_H
                   \/ (y >= 0 /\ Occupied(game.grid, x, y)))

(* C7 witness: cells above the grid, the others free: no collision *)
C7_Witness ==
  /\ lastOp.op = "collides"
  /\ ret = FALSE
  /\ \E i \in 1..4 : ProbedCells[i][2] < 0

(* C8: the seven draws at indices 7i .. 7i+6 are each kind exactly once:
   within a group no kind is drawn twice, and a complete group has drawn
   every kind. *)
C8_EachGroupOfSevenIsAPermutation ==
  /\ \A k \in Kinds : drawn[k] <= 1
  /\ (draws > 0 /\ draws % Len(KindSeq) = 0) => \A k \in Kinds : drawn[k] = 1

(* C8 witness: the second group of seven draws is complete *)
C8_Witness ==
  /\ draws = 2 * Len(KindSeq)
  /\ \A k \in Kinds : drawn[k] = 1

(* C9: rotate changes nothing but the current piece; on an active engine
   the piece takes rotation r' = (r + direction) mod 4 and moves by the first
   kick of the list for (r, r') whose cells do not collide, or, when every
   candidate collides, keeps rotation and position. *)
C9_RotateIsAllOrNothing ==
  [][lastOp'.op = "rotate" =>
       LET c    == game.current
           r2   == (c.rot + lastOp'.arg[1] + 4) % 4
           cand == IF c.kind = "I" THEN KICKS_I[c.rot + 1][r2 + 1]
                   ELSE KICKS_JLSTZ[c.rot + 1][r2 + 1]
           free == {i \in 1..Len(cand) :
                      ~collides(game.grid,
                                cells(c, c.x + cand[i][1], c.y + cand[i][2], r2))}
       IN  /\ game' = [game EXCEPT !.current = game'.current]
           /\ Active(game) =>
                IF free = {} THEN game'.current = c
                ELSE game'.current =
                       [c EXCEPT !.rot = r2,
                                 !.x = c.x + cand[Min(free)][1],
                                 !.y = c.y + cand[Min(free)][2]]]_vars

(* C9 witness: a rotation that was accepted with a kick up or down *)
C9_Witness ==
  /\ lastOp.op = "rotate"
  /\ game.current.kind = before.kind
  /\ game.current.rot # before.rot
  /\ game.current.y # before.y

(* C10: on an active engine hard_drop locks the piece at its x and rotation
   in the row ghost_y() gave before the call, and awards 2 points per row
   fallen, ghost_y() minus the row it fell from; ghost_y changes nothing. *)
C10_HardDropLocksAtGhost ==
  [][((lastOp'.op = "hard_drop" /\ Active(game)) =>
        LET gy == ghost_y(game)
            p  == [game.current EXCEPT !.y = gy]
            l  == lock(game.grid, p)
        IN  /\ lastLock'.piece = p
            /\ game'.grid = l.grid
            /\ game'.score = game.score + 2 * (gy - game.current.y)
                               + scores(l.cleared) * game.level)
     /\ (lastOp'.op = "ghost_y" => (game' = game /\ ret' = ghost_y(game)))]_vars

(* C10 witness: a hard drop that fell some rows and came to rest above the floor *)
C10_Witness ==
  /\ lastOp.op = "hard_drop"
  /\ lastLock.piece.y > before.y
  /\ \A i \in 1..4 : own_cells(lastLock.piece)[i][2] < GRID_H - 1

(* the line-clear award of the scoring table, before the level factor *)
Award(c) == IF c = 0 THEN 0 ELSE <<100, 300, 500, 800>>[c]

(* the points the last call gave for dropping: 2 per row of a hard drop,
   1 for a soft drop that moved, none for a lock by soft drop or gravity *)
DropAward ==
  IF lastOp'.op = "hard_drop" THEN 2 * (lastLock'.piece.y - game.current.y)
  ELSE 0

(* C11: a lock that clears c rows (c in 1..4) at level L adds
   {1:100, 2:300, 3:500, 4:800}[c] * L to the score, L being the level
   before this lock recomputes it, and adds c to lines; a lock that clears
   nothing leaves score, lines and level as they were. *)
C11_LineAwardUsesLevelBeforeLock ==
  [][lastLock'.n # lastLock.n =>
       LET c == lastLock'.cleared
       IN  /\ game'.score = game.score + DropAward + Award(c) * game.level
           /\ game'.lines = game.lines + c
           /\ c = 0 => game'.level = game.level]_vars

(* C11 witness: four rows cleared at level 2 by a lock that raised the level *)
C11_Witness ==
  /\ lastLock.n > 0
  /\ lastLock.cleared = 4
  /\ lastOp.op = "soft_drop"
  /\ game.lines = 23
  /\ game.level = 3
  /\ game.score = 1600

(* C12: in every state of the engine level = 1 + floor(lines / 10): one row
   cleared at lines = 9 gives lines = 10 and level 2, and a clear of several
   rows that passes a multiple of 10 raises the level in that same lock. *)
C12_LevelFollowsLines ==
  game.level = 1 + (game.lines \div 10)

(* C12 witness: three rows cleared at lines = 9, passing 10 *)
C12_Witness ==
  /\ lastLock.n > 0
  /\ lastLock.cleared = 3
  /\ game.lines = 12
  /\ game.level = 2

(* the nudge offsets (dx, dy) in the order the loops of spawn_new take them,
   dy outermost, and in the order the specification lists them *)
LoopOrder ==
  << <<0, 0>>, <<-1, 0>>, <<1, 0>>, <<0, -1>>, <<-1, -1>>, <<1, -1>>,
     <<0, 1>>, <<-1, 1>>, <<1, 1>> >>

ListedOrder ==
  << <<0, 0>>, <<0, -1>>, <<0, 1>>, <<-1, 0>>, <<-1, 1>>, <<-1, -1>>,
     <<1, 0>>, <<1, 1>>, <<1, -1>> >>

(* the call drew from the bag, which only spawn_new does after construction;
   then the head of the queue was placed on the grid the call left, at the
   first offset of the order that does not collide, and game_over was set
   if no offset is free and left alone otherwise *)
SpawnNudgedIn(order) ==
  game'.bag # game.bag =>
    LET p    == Piece(Head(game.next_queue))
        free == {i \in 1..Len(order) :
                   ~collides(game'.grid,
                             cells(p, p.x + order[i][1], p.y + order[i][2], p.rot))}
    IN  IF free = {}
        THEN game'.game_over /\ game'.current = p
        ELSE /\ game'.game_over = game.game_over
             /\ game'.current = [p EXCEPT !.x = p.x + order[Min(free)][1],
                                         !.y = p.y + order[Min(free)][2]]

(* C13 as stated: a new piece whose spawn position collides is placed at the
   first free offset of (0,0),(0,-1),(0,1),(-1,0),(-1,1),(-1,-1),(1,0),(1,1),
   (1,-1), read as (dx,dy); spawn_new sets game_over exactly when all nine
   collide. *)
C13_NudgeOrderAsListed == [][SpawnNudgedIn(ListedOrder)]_vars

(* C13 amended: a new piece whose spawn position collides is placed at the
   first free offset of (0,0),(-1,0),(1,0),(0,-1),(-1,-1),(1,-1),(0,1),(-1,1),
   (1,1), read as (dx,dy): both sideways nudges in the row before the row
   above; spawn_new sets game_over exactly when all nine collide. *)
C13_NudgeOrderOfTheLoops == [][SpawnNudgedIn(LoopOrder)]_vars

(* C13 witness: a lock left row 1 occupied so that the next piece collided
   at its spawn position and one column left and right of it, and was
   placed one row up *)
C13_Witness ==
  /\ lastLock.n > 0
  /\ ~game.game_over
  /\ game.current.x = 3
  /\ game.current.y = -1
  /\ game.current.rot = 0
  /\ collides(game.grid, cells(game.current, 3, 0, 0))
  /\ collides(game.grid, cells(game.current, 2, 0, 0))
  /\ collides(game.grid, cells(game.current, 4, 0, 0))

(* C14: hold_piece on an active engine with hold not yet used.  With a kind
   H held: the current piece becomes H at rotation 0, x = 3, y = 0, the
   held kind becomes the kind that was current, queue and bag stay as they
   were, and game_over is set exactly if H collides there, the piece staying
   at that position without a nudge.  With nothing held: the held kind
   becomes the kind that was current and the head of the queue becomes the
   current piece. *)
C14_HoldSwapsOrStores ==
  [][(lastOp'.op = "hold_piece" /\ Active(game) /\ ~game.hold_used) =>
       IF game.hold # None
       THEN LET p == [kind |-> game.hold, rot |-> 0, x |-> 3, y |-> 0]
            IN  /\ game'.current = p
                /\ game'.hold = game.current.kind
                /\ game'.next_queue = game.next_queue
                /\ game'.bag = game.bag
                /\ game'.grid = game.grid
                /\ game'.game_over = collides(game.grid, own_cells(p))
       ELSE /\ game'.hold = game.current.kind
            /\ game'.current.kind = Head(game.next_queue)
            /\ game'.next_queue # game.next_queue]_vars

(* C14 witness: a swap whose swapped-in piece collided at the spawn position
   and ended the game there *)
C14_Witness ==
  /\ lastOp.op = "hold_piece"
  /\ game.game_over
  /\ game.hold = before.kind
  /\ game.current.kind # before.kind
  /\ game.current.x = 3
  /\ game.current.y = 0
  /\ collides(game.grid, own_cells(game.current))

(* max(0.10, 0.55 - (level - 1) * 0.05) seconds, in milliseconds *)
Threshold(level) ==
  IF 550 - (level - 1) * 50 >= 100 THEN 550 - (level - 1) * 50 ELSE 100

(* C15: tick(dt) on an active engine adds dt to the gravity accumulator.
   If the sum reaches max(0.10, 0.55 - (level-1)*0.05) the accumulator
   becomes zero and the piece moves down one row, only one however large dt
   is, if that does not collide, and is locked where it stands otherwise.
   If the sum stays below, nothing but the accumulator changes. *)
C15_TickFallsOneRowAtThreshold ==
  [][(lastOp'.op = "tick" /\ Active(game)) =>
       LET acc  == game.gravity_timer + lastOp'.arg[1]
           c    == game.current
           down == cells(c, c.x, c.y + 1, c.rot)
       IN  IF acc >= Threshold(game.level)
           THEN /\ game'.gravity_timer = 0
                /\ IF ~collides(game.grid, down)
                   THEN /\ game' = [game EXCEPT !.gravity_timer = 0,
                                                !.current.y = c.y + 1]
                        /\ lastLock' = lastLock
                   ELSE /\ lastLock'.n = lastLock.n + 1
                        /\ lastLock'.piece = c
           ELSE /\ game' = [game EXCEPT !.gravity_timer = acc]
                /\ lastLock' = lastLock]_vars

(* C15 witness: at level 11, where the clamp applies, the accumulator came
   to the threshold exactly and the piece moved down one row *)
C15_Witness ==
  /\ lastOp = [op |-> "tick", arg |-> <<50, 0>>]
  /\ game.level = 11
  /\ game.gravity_timer = 0
  /\ game.current = [before EXCEPT !.y = before.y + 1]
  /\ lastLock.n = 0

(* C16: the pause key changes the paused flag and nothing else; when the
   engine is resumed after tick calls only, every field is what it was at
   the moment of pausing: gravity accumulator, score, lines, level, board,
   piece, hold and queue. *)
C16_PauseFreezesTheEngine ==
  [][lastOp'.op = "pause" =>
       /\ game' = [game EXCEPT !.paused = ~game.paused]
       /\ (game.paused /\ ~frozen.other) => game' = frozen.e]_vars

(* C16 witness: resumed after a tick while paused that would have made the
   piece fall, the accumulator still at its value from before the pause *)
C16_Witness ==
  /\ lastOp.op = "pause"
  /\ ~game.paused
  /\ ~frozen.other
  /\ frozen.ticks >= 1
  /\ game.gravity_timer = 500
  /\ game = frozen.e

(* the cells of piece c moved down by k rows *)
Lowered(c, k) == cells(c, c.x, c.y + k, c.rot)

(* the rows piece c can fall on the grid before it would collide *)
FallRows(grid, c) ==
  CHOOSE d \in 0..(GRID_H + 2) :
    /\ \A k \in 1..d : ~collides(grid, Lowered(c, k))
    /\ collides(grid, Lowered(c, d + 1))

(* C17: on an active engine a soft_drop that can move down adds 1 to the
   score and 1 to y and changes nothing else; one that cannot locks the
   piece where it is, the score growing by the line award only.  hard_drop
   always locks, and adds 2 points per row fallen besides the line award. *)
C17_DropAwards ==
  [][Active(game) =>
       /\ lastOp'.op = "soft_drop" =>
             IF ~collides(game.grid, Lowered(game.current, 1))
             THEN /\ game' = [game EXCEPT !.score = game.score + 1,
                                          !.current.y = game.current.y + 1]
                  /\ lastLock' = lastLock
             ELSE /\ lastLock'.n = lastLock.n + 1
                  /\ lastLock'.piece = game.current
                  /\ game'.score = game.score + Award(lastLock'.cleared) * game.level
       /\ lastOp'.op = "hard_drop" =>
             LET d == FallRows(game.grid, game.current)
             IN  /\ lastLock'.n = lastLock.n + 1
                 /\ lastLock'.piece = [game.current EXCEPT !.y = game.current.y + d]
                 /\ game'.score = game.score + 2 * d
                                     + Award(lastLock'.cleared) * game.level]_vars

(* C17 witness: a soft drop that could not move locked the piece and
   cleared rows, scoring the line award and no more *)
C17_Witness ==
  /\ lastOp.op = "soft_drop"
  /\ lastLock.n = 1
  /\ lastLock.piece = before
  /\ lastLock.cleared = 2
  /\ game.score = 300

(* C18: the upcoming queue always holds exactly 5 kinds.  A call that
   spawns makes the head of the queue the current kind and puts one new draw
   of the bag at the tail, the four entries between keeping their order; a
   call that does not spawn leaves queue and bag alone. *)
C18_QueueOfFive ==
  /\ [](Len(game.next_queue) = 5 /\ \A i \in 1..5 : game.next_queue[i] \in Kinds)
  /\ [][IF game'.bag # game.bag
        THEN /\ game'.current.kind = Head(game.next_queue)
             /\ SubSeq(game'.next_queue, 1, 4) = Tail(game.next_queue)
             /\ IF game.bag # <<>>
                THEN /\ game'.next_queue[5] = Head(game.bag)
                     /\ game'.bag = Tail(game.bag)
                ELSE /\ Len(game'.bag) = Len(KindSeq) - 1
                     /\ {game'.next_queue[5]} \cup {game'.bag[i] : i \in 1..Len(game'.bag)}
                          = Kinds
        ELSE game'.next_queue = game.next_queue]_vars

(* C18 witness: the third spawn since construction, after a lock each: the
   first drew after a shuffle, the others from what the shuffle left *)
C18_Witness ==
  /\ Len(played) = 4
  /\ lastLock.n = 3
  /\ ~game.game_over
  /\ Len(game.bag) = 4
  /\ Len(game.next_queue) = 5

(* the set of grid cells piece c occupies *)
CellSet(c) == {own_cells(c)[i] : i \in 1..4}

(* C19: rotate, in either direction, on an active engine whose current
   piece is the square leaves the piece's position and the set of cells it
   occupies as they were: no kick other than (0,0) is applied; nothing but
   the rotation index changes. *)
C19_SquareStaysInPlace ==
  [][(lastOp'.op = "rotate" /\ game.current.kind = "O" /\ Active(game)) =>
       /\ game'.current.x = game.current.x
       /\ game'.current.y = game.current.y
       /\ CellSet(game'.current) = CellSet(game.current)
       /\ game' = [game EXCEPT !.current.rot = game'.current.rot]]_vars

(* C19 witness: the square was rotated in the corner between the left wall
   and the floor, where the shared kick table offers other offsets *)
C19_Witness ==
  /\ lastOp.op = "rotate"
  /\ before.kind = "O"
  /\ game.current = [before EXCEPT !.rot = (before.rot + lastOp.arg[1] + 4) % 4]
  /\ game.current.x = -1
  /\ game.current.y = GRID_H - 2

(* the kinds played as the g-th group of seven, g = 0, 1, ... *)
PlayedGroup(g) == {played[Len(KindSeq) * g + i] : i \in 1..Len(KindSeq)}

(* C20: with no hold, the pieces of a game are the draws of the bag in
   draw order, none left out: the first seven pieces played, and each seven
   after them, are every kind once. *)
C20_PlayedGroupsArePermutations ==
  \A g \in 0..(MaxPlayed \div Len(KindSeq)) :
     Len(played) >= Len(KindSeq) * (g + 1) => PlayedGroup(g) = Kinds

(* piece p lies inside the walls and above the floor, and none of its cells
   at y >= 0 lies on an occupied cell of the grid *)
Fits(grid, p) ==
  \A i \in 1..4 :
     LET x == own_cells(p)[i][1]
         y == own_cells(p)[i][2]
     IN  /\ 0 <= x
         /\ x < GRID_W
         /\ y < GRID_H
         /\ (y >= 0 => ~Occupied(grid, x, y))

(* C21: while game_over is false the four cells of the current piece do not
   collide with the board: each has 0 <= x < 10 and y < 20, and none with
   y >= 0 lies on an occupied cell; after construction and after every
   call. *)
C21_CurrentPieceFits == ~game.game_over => Fits(game.grid, game.current)

(* C21 witness: a lock was followed by a spawn that had to nudge the new
   piece one row up, where it fits and rests on occupied cells *)
C21_Witness ==
  /\ lastOp.op \in {"soft_drop", "hard_drop", "tick"}
  /\ lastLock.n > 0
  /\ ~game.game_over
  /\ game.current.y < 0
  /\ Fits(game.grid, game.current)
  /\ ~Fits(game.grid, [game.current EXCEPT !.y = @ + 1])

(* C22: a call that reaches Board.lock writes the piece's kind only into
   cells that were empty just before it, so that no occupied cell's tag is
   overwritten; a call that does not reach Board.lock leaves the grid as it
   was (the rows a lock removes and shifts are the subject of C6). *)
C22_LockWritesOnlyEmptyCells ==
  [][IF lastLock'.n # lastLock.n
     THEN \A i \in 1..4 :
            LET x == own_cells(lastLock'.piece)[i][1]
                y == own_cells(lastLock'.piece)[i][2]
            IN  (0 <= x /\ x < GRID_W /\ 0 <= y /\ y < GRID_H)
                  => ~Occupied(game.grid, x, y)
     ELSE game'.grid = game.grid]_vars

(* the columns a piece covers at its spawn position *)
CentralColumns == 3..6

(* under gravity alone the game ends, no row is completed on the way, and
   there are never more locks than the grid has rows *)
GravityEnds ==
  /\ <>game.game_over
  /\ [](game.lines = 0 /\ lastLock.cleared = 0)
  /\ [](lastLock.n <= GRID_H)

(* C23: a new engine on which tick(dt), dt > 0, is the only call, made
   forever, reaches game_over whatever the bag draws: pieces stack in the
   central columns only, no row is completed, and the locks are bounded,
   there being never more of them than the grid has rows. *)
C23_GravityEndsTheGame ==
  /\ GravityEnds
  /\ [](\A x \in 0..(GRID_W - 1), y \in 0..(GRID_H - 1) :
          Occupied(game.grid, x, y) => x \in CentralColumns)

====
